---- MODULE Spec2Model ----
(***************************************************************************)
(* The dependency-tracking store of jotai.                                 *)
(*                                                                         *)
(* Spec      : the store of the "Core internals" guide (second version):   *)
(*             atom, getAtomState, readAtom, notify, writeAtom, useAtom.   *)
(*             Every function is translated statement by statement; the    *)
(*             JavaScript call stack is a frame counter, a thrown error is *)
(*             the field err of the threaded state and aborts every caller.*)
(*             An endless recursion runs out of stack on any of its calls. *)
(* The adapter of src/core/useAtom.ts (subscribe, getAtomValue, setAtom,   *)
(* the flush after a commit) runs on the store of src/core/store.ts, which *)
(* is modelled from the design document: records with generations, a queue *)
(* of pending notifications, asynchronous reads that settle later.         *)
(* StoreSpec : the adapter of src/core/useAtom.ts on that store, with the  *)
(*             cells P and Q.                                              *)
(* ChainSpec : the same with the chain P -> Q -> R, the derived cell R     *)
(*             reading the asynchronous cell Q.                            *)
(* ScopeSpec : the same adapter under two Providers with different       *)
(*             scopes, each with its own store, with the cell P.           *)
(* StorageSpec : a cell made with atomWithStorage, whose implementation is *)
(*             modelled from what the storage guide documents, on the      *)
(*             store of the guide.                                         *)
(* GcSpec    : Spec with the application letting go of atoms and the       *)
(*             WeakMap dropping the entries of unreachable atoms.          *)
(* WriteSpec : Spec for an application with a cell whose write function   *)
(*             reads a derived cell.                                       *)
(* ValueSpec : getAtomValue of useAtom.ts applied to every atom state of   *)
(*             the cells Q and R.                                          *)
(* A behaviour of Spec runs one application: one set of cells of Programs. *)
(***************************************************************************)
EXTENDS Integers, Sequences, FiniteSets, TLC

\* ---------------------------------------------------------------- bounds
\* values a caller may write to a primitive cell: 0..MaxVal
MaxVal == 1
\* number of nested engine frames (readAtom / notify / writeAtom / listener)
\* the JavaScript stack holds before it throws RangeError
MaxStack == 8
\* number of listener callbacks (useAtom effects) that are ever created
MaxCallbacks == 2
\* number of evaluations of one asynchronous cell that are ever started
MaxGen == 2

\* ---------------------------------------------------------------- values
\* JavaScript undefined (the value of a record whose atom has no init)
Undef == 0 - 1

\* JavaScript NaN (the result of arithmetic on what is not a number)
NaN == 0 - 2

Values == 0..MaxVal
Callbacks == 1..MaxCallbacks

\* The symbol RESET of jotai/utils.
RESET == 0 - 3

\* A promise that resolves to v is the number PromiseTag + v.
PromiseTag == 100
Promise(v) == PromiseTag + v
IsPromise(x) == x >= PromiseTag + NaN
Resolved(x) == x - PromiseTag

\* (x + 1) % (MaxVal + 1) as JavaScript computes it: undefined + 1 is NaN,
\* a promise + 1 is a string, and a string % n is NaN
Succ(x) ==
  IF x \in Values THEN (x + 1) % (MaxVal + 1) ELSE NaN

\* The value given to setAtom / writeAtom: a plain value (fn = "none") or a
\* function of the current value: () => v ("const"),
\* (x) => (x + 1) % (MaxVal + 1) ("succ"), or
\* async (p) => ((await p) + 1) % (MaxVal + 1) ("asyncSucc").
Updates ==
  [fn : {"none", "const"}, v : Values] \cup {[fn |-> "succ", v |-> 0]}

\* The updates given to a cell made with atomWithStorage: also RESET,
\* (prev) => RESET (fn = "const"), and (prev) => prev ? RESET : true
\* ("toggle", true being 1).
StorageUpdates ==
  Updates \cup [fn : {"none", "const"}, v : {RESET}]
          \cup {[fn |-> "toggle", v |-> 0]}

\* the same for a cell that holds promises
AsyncUpdates ==
  Updates \cup {[fn |-> "none", v |-> Promise(v)] : v \in Values}
          \cup {[fn |-> "asyncSucc", v |-> 0]}

\* arg(cur): the function is called with the value it is given
Apply(arg, cur) ==
  CASE arg.fn = "const" -> arg.v
    [] arg.fn = "succ" -> Succ(cur)
    [] arg.fn = "toggle" -> IF cur \notin {0, Undef, NaN} THEN RESET ELSE 1
    [] arg.fn = "asyncSucc" ->
         Promise(Succ(IF IsPromise(cur) THEN Resolved(cur) ELSE cur))

Plain(v) == [fn |-> "none", v |-> v]

\* ---------------------------------------------------------------- the cells
\* const A = atom(1)                          (priceAtom, a primitive cell)
\* const B = atom((get) => get(A) + 1)
\* const C = atom((get) => get(A) * 2)        (readOnlyAtom, "doubled")
\* const D = atom((get) => get(B) + get(C))   (the diamond A -> {B, C} -> D)
\* const X = atom((get) => get(A) + get(Y))   (X and Y read each other)
\* const Y = atom((get) => get(X))
\* const G = atom(1)
\* const K = atom((get) => { const a = get(A); return a === 0 ? get(G) : a })
\*                                  (K reads G only while A is 0)
\* const M = atom((get) => get(A) + get(G))
\* const W = atom(undefined, (get, set, arg) => { set(A, arg); set(G, arg) })
\*                                  (a write-only cell that sets two cells)
\* const S = atom(Promise.resolve(1))         (a cell that holds promises)
\* const T = atomWithStorage('text', 1)        (a cell persisted in storage)
Atoms == {"A", "B", "C", "D", "X", "Y", "S", "T", "G", "K", "M", "W", "V"}

\* The programs: the sets of cells one application defines and uses.
\* The cells of the application that runs on the adapter's store:
\* const P = atom(1)
\* const Q = atom(async (get) => get(P) * 2)   (it may also reject)
\* const R = atom((get) => get(Q))               (in the chain P -> Q -> R)
StoreCells == {"P", "Q", "R"}

Programs ==
  {{"A", "B", "C", "D"}, {"A", "X", "Y"}, {"S"}, {"A", "G", "K"},
   {"A", "G", "M", "W"}}

\* The cells a component renders with useAtom.
Mounted == {"C", "D", "X", "Q", "R", "T", "K", "M"}

\* atom(read, write): a function as first argument gives { read, write };
\* anything else gives a config with init, read = (get) => get(config) and
\* the default write.
atom(a) ==
  CASE a \in {"A", "P", "G"} -> [init |-> 1, read |-> "self", write |-> "default"]
    [] a = "S" -> [init |-> Promise(1), read |-> "self", write |-> "default"]
    [] a = "T" -> [init |-> 1, read |-> "self", write |-> "storage"]
    [] a = "W" -> [init |-> Undef, read |-> "self", write |-> "both"]
    [] a = "V" -> [init |-> 0, read |-> "self", write |-> "copy"]
    [] OTHER -> [init |-> Undef, read |-> "fn", write |-> "none"]

\* the updates an application gives to setAtom of cell a
UpdatesOf(a) ==
  CASE a = "S" -> AsyncUpdates
    [] a = "T" -> StorageUpdates
    [] a \in {"W", "V"} -> [fn : {"none"}, v : Values]
    [] OTHER -> Updates

Get(a) == [op |-> "get", a |-> a, v |-> 0]
Return(v) == [op |-> "return", a |-> "", v |-> v]

\* atom.read(get), one step at a time: got holds the values the calls of get
\* have returned so far; the result is the next call of get or the return.
ReadFn(a, got) ==
  CASE a \in {"A", "S", "T", "G", "W", "V"} -> IF Len(got) = 0 THEN Get(a) ELSE Return(got[1])
    [] a = "B" -> IF Len(got) = 0 THEN Get("A") ELSE Return(got[1] + 1)
    [] a = "C" -> IF Len(got) = 0 THEN Get("A") ELSE Return(got[1] * 2)
    [] a = "D" -> IF Len(got) = 0 THEN Get("B")
                  ELSE IF Len(got) = 1 THEN Get("C")
                  ELSE Return(got[1] + got[2])
    [] a = "X" -> IF Len(got) = 0 THEN Get("A")
                  ELSE IF Len(got) = 1 THEN Get("Y")
                  ELSE Return(got[1] + got[2])
    [] a = "Y" -> IF Len(got) = 0 THEN Get("X") ELSE Return(got[1])
    [] a = "M" -> IF Len(got) = 0 THEN Get("A")
                  ELSE IF Len(got) = 1 THEN Get("G")
                  ELSE Return(got[1] + got[2])
    [] a = "K" -> IF Len(got) = 0 THEN Get("A")
                  ELSE IF got[1] # 0 THEN Return(got[1])
                  ELSE IF Len(got) = 1 THEN Get("G")
                  ELSE Return(got[2])

SetTo(a, v) == [op |-> "set", a |-> a, v |-> v]

\* atom.write(get, set, arg), one step at a time: pc counts the calls of get
\* and set made so far. The default write of a primitive cell:
\*   if (typeof arg === 'function') set(config, arg(get(config)))
\*   else set(config, arg)
WriteFnInit(a, arg, pc, got) ==
  IF arg.fn # "none"
  THEN CASE pc = 0 -> Get(a)
         [] pc = 1 -> SetTo(a, Apply(arg, atom(a).init))
         [] OTHER -> Return(Undef)
  ELSE CASE pc = 0 -> SetTo(a, arg.v)
         [] OTHER -> Return(Undef)

\* the value a cell made with atomWithStorage takes for nextValue: RESET
\* resets it to the initial value
resetTo(a, nextValue) == IF nextValue = RESET THEN atom(a).init ELSE nextValue

\* The write of a cell made with atomWithStorage(key, initialValue):
\*   nextValue = typeof update === 'function' ? update(get(self)) : update
\*   set(self, nextValue === RESET ? initialValue : nextValue)
atomWithStorage(a, arg, pc, got) ==
  IF arg.fn # "none"
  THEN CASE pc = 0 -> Get(a)
         [] pc = 1 -> SetTo(a, resetTo(a, Apply(arg, got[1])))
         [] OTHER -> Return(Undef)
  ELSE CASE pc = 0 -> SetTo(a, resetTo(a, arg.v))
         [] OTHER -> Return(Undef)

\* the write of W: (get, set, arg) => { set(A, arg); set(G, arg) }
setBoth(arg, pc) ==
  CASE pc = 0 -> SetTo("A", arg.v)
    [] pc = 1 -> SetTo("G", arg.v)
    [] OTHER -> Return(Undef)

\* the write of V: (get, set, arg) => set(V, get(C))
setCopy(a, pc, got) ==
  CASE pc = 0 -> Get("C")
    [] pc = 1 -> SetTo(a, got[1])
    [] OTHER -> Return(Undef)

WriteFn(a, arg, pc, got) ==
  CASE atom(a).write = "storage" -> atomWithStorage(a, arg, pc, got)
    [] atom(a).write = "both" -> setBoth(arg, pc)
    [] atom(a).write = "copy" -> setCopy(a, pc, got)
    [] OTHER ->
         IF arg.fn # "none"
         THEN CASE pc = 0 -> Get(a)
                [] pc = 1 -> SetTo(a, Apply(arg, got[1]))
                [] OTHER -> Return(Undef)
         ELSE CASE pc = 0 -> SetTo(a, arg.v)
                [] OTHER -> Return(Undef)

\* ---------------------------------------------------------------- storage
\* the keys atomWithStorage is given, and the storage with no item
Keys == {"text"}
NoStorage == [k \in Keys |-> Undef]

\* the key of the cell made with atomWithStorage('text', 1)
keyOf(a) == "text"

\* update(prev) for a function, update otherwise
nextValue(arg, prev) == IF arg.fn = "none" THEN arg.v ELSE Apply(arg, prev)

\* the storage side of the write, with RESET taken as an ordinary value
setItemAlways(stg, key, next) == [stg EXCEPT ![key] = next]

\* storage.removeItem(key) for RESET, storage.setItem(key, nextValue) else
writeItem(stg, key, next) ==
  IF next = RESET THEN [stg EXCEPT ![key] = Undef]
  ELSE [stg EXCEPT ![key] = next]

\* ---------------------------------------------------------------- state
VARIABLES
  atoms,         \* the cells the application has defined
  atomStateMap,  \* the WeakMap: atom -> { value, listeners, dependents }
  store,         \* the adapter's store: records, in-flight reads, queue
  scopes,        \* per scope: the store its context provides
  storage,       \* the storage of atomWithStorage: key -> item
  hooks,         \* per callback: mounted or not, and its atom
  last           \* the last operation and what it did

vars == <<atoms, atomStateMap, store, scopes, storage, hooks, last>>


\* A JavaScript Set keeps insertion order: a sequence without duplicates.
SetAdd(s, x) == IF \E i \in 1..Len(s) : s[i] = x THEN s ELSE Append(s, x)
SetDeleteNone(s, x) == s

SetDelete(s, x) == SelectSeq(s, LAMBDA y : y # x)
ToSet(s) == {s[i] : i \in 1..Len(s)}

getAtomState(map, a) ==
  IF a \in DOMAIN map
  THEN map
  ELSE map @@ (a :> [value |-> atom(a).init,
                     listeners |-> <<>>,
                     dependents |-> <<>>])

\* The state threaded through one top-level call.
NoDeps == [a \in Atoms |-> {}]

\* A read that recurses without end runs out of stack on one of its calls:
\* readAtom(a) from get, then atom.read(get) from readAtom, then get(b)
\* from atom.read, and so on. Which call it is, and in the evaluation of
\* which cell, depends on the stack the engine has left when the top-level
\* call is made and on the size of each function's frame: it is any call
\* of the chain once the stack is deep. call names the kind of call and
\* cell the cell read (readAtom, read) or the cell whose read function
\* makes the call (get); a get that runs out of stack, on its entry or in
\* its getAtomState or dependents.add, has added no edge.
Frames == [call : {"readAtom", "read", "get"}, cell : Atoms]

\* the stack of a call chain that does not recurse without end
NoFrame == [call |-> "readAtom", cell |-> ""]

\* the depth from which the stack is deep
Deep == MaxStack - 1

\* the stack runs out on this call
overflow(S, call, a, depth) ==
  depth >= Deep /\ S.frame = [call |-> call, cell |-> a]

\* deps is kept for the properties: for each cell, the cells its read
\* function passed to get in its most recent evaluation. frame is the call
\* on which the stack runs out.
EnterOn(map, hk, deps, frame) ==
  [map |-> map, hooks |-> hk, err |-> "none", val |-> Undef,
   calls |-> <<>>, reads |-> [a \in Atoms |-> 0], deps |-> deps,
   frame |-> frame]

Enter(map, hk, deps) == EnterOn(map, hk, deps, NoFrame)

Throw(S, e) == [S EXCEPT !.err = e]

noError(S) == S.err = "none"

RECURSIVE readAtom(_, _, _)
RECURSIVE read(_, _, _, _)
RECURSIVE notify(_, _, _)
RECURSIVE forEachDependent(_, _, _, _)
RECURSIVE forEachListener(_, _, _, _)
RECURSIVE writeAtom(_, _, _, _)
RECURSIVE write(_, _, _, _, _, _)

\* get(a) in readAtom, for a cell a other than the one being read:
\*   const aState = getAtomState(a); aState.dependents.add(atom)
addDependent(S, a, reader) ==
  [S EXCEPT !.map = [b \in DOMAIN getAtomState(@, a) |->
                       IF b = a
                       THEN [getAtomState(@, a)[b] EXCEPT
                               !.dependents = SetAdd(@, reader)]
                       ELSE getAtomState(@, a)[b]],
            !.deps[reader] = @ \cup {a}]

\* the value readAtom(a) returned goes back into the read function
readGot(S, a, got, depth) ==
  IF noError(S) THEN read(S, a, Append(got, S.val), depth) ELSE S

\* the same with a get that does not tell the cell itself from the others
readStepTracked(S, a, got, depth, step) ==
  IF step.op = "return" THEN [S EXCEPT !.val = step.v]
  ELSE IF overflow(S, "get", a, depth) THEN Throw(S, "RangeError")
  ELSE readGot(readAtom(addDependent(S, step.a, a), step.a, depth + 1),
               a, got, depth)

\* one step of atom.read(get): it returns, or calls get(step.a), which
\* throws when the stack has run out
readStep(S, a, got, depth, step) ==
  IF step.op = "return" THEN [S EXCEPT !.val = step.v]
  ELSE IF overflow(S, "get", a, depth) THEN Throw(S, "RangeError")
  ELSE IF step.a = a
  THEN read(S, a, Append(got, S.map[a].value), depth)
  ELSE readGot(readAtom(addDependent(S, step.a, a), step.a, depth + 1),
               a, got, depth)

\* const value = atom.read(get), with get as readAtom defines it
read(S, a, got, depth) == readStep(S, a, got, depth, ReadFn(a, got))

\* const atomState = getAtomState(atom), and atom.read is entered
readAtomEnter(S, a) ==
  [S EXCEPT !.map = getAtomState(@, a), !.reads[a] = @ + 1,
            !.deps[a] = {}]

\* atomState.value = value; return value
readAtomReturn(S, a) ==
  IF noError(S) THEN [S EXCEPT !.map[a].value = S.val] ELSE S

\* the stack runs out on the call of atom.read, after getAtomState(atom)
readOverflow(S, a) == Throw([S EXCEPT !.map = getAtomState(@, a)], "RangeError")

readAtomCached(S, a, depth) ==
  IF depth > MaxStack THEN Throw(S, "RangeError")
  ELSE IF overflow(S, "readAtom", a, depth) THEN Throw(S, "RangeError")
  ELSE IF overflow(S, "read", a, depth) THEN readOverflow(S, a)
  ELSE IF a \in DOMAIN S.map /\ S.map[a].value # Undef
  THEN [S EXCEPT !.val = S.map[a].value]
  ELSE readAtomReturn(read(readAtomEnter(S, a), a, <<>>, depth), a)

readAtom(S, a, depth) ==
  IF depth > MaxStack THEN Throw(S, "RangeError")
  ELSE IF overflow(S, "readAtom", a, depth) THEN Throw(S, "RangeError")
  ELSE IF overflow(S, "read", a, depth) THEN readOverflow(S, a)
  ELSE readAtomReturn(read(readAtomEnter(S, a), a, <<>>, depth), a)

\* the call of listener l is recorded with the value it read
called(S, l) ==
  [S EXCEPT !.calls = Append(@, [cb |-> l,
                                 v |-> IF noError(S) THEN S.val ELSE Undef])]

\* const callback = () => setValue(readAtom(atom))
callback(S, l, depth) == called(readAtom(S, S.hooks[l].atom, depth), l)

forEachListenerNext(S, a, i, depth) ==
  IF noError(S) THEN forEachListener(S, a, i + 1, depth) ELSE S

\* atomState.listeners.forEach((l) => l())
forEachListener(S, a, i, depth) ==
  IF i > Len(S.map[a].listeners) THEN S
  ELSE forEachListenerNext(callback(S, S.map[a].listeners[i], depth + 1),
                           a, i, depth)

forEachDependentNext(S, a, i, depth) ==
  IF noError(S) THEN forEachDependent(S, a, i + 1, depth) ELSE S

\* if (d !== atom) notify(d)
notifyDependent(S, a, d, depth) ==
  IF d # a THEN notify(S, d, depth + 1) ELSE S

\* atomState.dependents.forEach((d) => { if (d !== atom) notify(d) })
forEachDependent(S, a, i, depth) ==
  IF i > Len(S.map[a].dependents) THEN S
  ELSE forEachDependentNext(
         notifyDependent(S, a, S.map[a].dependents[i], depth), a, i, depth)

notifyListeners(S, a, depth) ==
  IF noError(S) THEN forEachListener(S, a, 1, depth) ELSE S

notify(S, a, depth) ==
  IF depth > MaxStack THEN Throw(S, "RangeError")
  ELSE notifyListeners(
         forEachDependent([S EXCEPT !.map = getAtomState(@, a)], a, 1, depth),
         a, depth)

\* set(a, v) of writeAtom(atom, ...)
set(S, atom_, a, v, depth) ==
  IF a = atom_
  THEN notify([S EXCEPT !.map[a].value = v], a, depth + 1)
  ELSE writeAtom(S, a, Plain(v), depth + 1)

\* get(a) of writeAtom: getAtomState(a).value, no edge is added
untrackedGet(S, a) == [S EXCEPT !.map = getAtomState(@, a)]

writeNext(S, a, arg, pc, got, depth) ==
  IF noError(S) THEN write(S, a, arg, pc + 1, got, depth) ELSE S

writeStep(S, a, arg, pc, got, depth, step) ==
  IF step.op = "return" THEN S
  ELSE IF step.op = "get"
  THEN write(untrackedGet(S, step.a), a, arg, pc + 1,
             Append(got, getAtomState(S.map, step.a)[step.a].value), depth)
  ELSE writeNext(set(S, a, step.a, step.v, depth), a, arg, pc, got, depth)

\* atom.write(get, set, value), with get and set as writeAtom defines them
write(S, a, arg, pc, got, depth) ==
  writeStep(S, a, arg, pc, got, depth, WriteFn(a, arg, pc, got))

writeAtomSilent(S, a, arg, depth) ==
  IF depth > MaxStack THEN Throw(S, "RangeError")
  ELSE IF atom(a).write = "none"
  THEN [S EXCEPT !.map = getAtomState(@, a)]
  ELSE write([S EXCEPT !.map = getAtomState(@, a)], a, arg, 0, <<>>, depth)

\* calling atom.write when the atom has none throws TypeError
writeAtom(S, a, arg, depth) ==
  IF depth > MaxStack THEN Throw(S, "RangeError")
  ELSE IF atom(a).write = "none"
  THEN Throw([S EXCEPT !.map = getAtomState(@, a)], "TypeError")
  ELSE write([S EXCEPT !.map = getAtomState(@, a)], a, arg, 0, <<>>, depth)

\* const setAtom = (nextValue) => { writeAtom(atom, nextValue) }: neither
\* setAtom nor writeAtom returns a value
setAtom(S, a, arg) == [writeAtom(S, a, arg, 1) EXCEPT !.val = Undef]

\* ------------------------------------------------ the adapter's store
\* A record as the adapter sees it: v (undefined when absent), e (the read
\* error), p (the in-flight read, named by its generation, 0 when none),
\* w (the in-flight write, 0 when none); and gen (the generation of the most
\* recent evaluation), vgen (the generation that committed v or e), stale
\* (a dependency was invalidated since the last evaluation), input (the
\* value of P the most recent evaluation read).
NoRecord ==
  [v |-> Undef, e |-> "none", p |-> 0, w |-> 0, gen |-> 0, vgen |-> 0,
   stale |-> FALSE, input |-> Undef, dependencies |-> {}, dependents |-> {}]

NoStore ==
  [rec |-> [c \in StoreCells |-> NoRecord], inflight |-> {},
   listeners |-> [c \in StoreCells |-> {}], pending |-> {}]

status(r) ==
  IF r.p # 0 THEN "pending-read"
  ELSE IF r.e # "none" THEN "errored"
  ELSE IF r.w # 0 THEN "pending-write"
  ELSE IF r.v # Undef THEN "settled"
  ELSE "none"

\* A scope names a context, and each context provides a store of its own.
Scopes == {"s1", "s2"}
NoScopes == [s \in Scopes |-> NoStore]

\* const ScopeContext = getScopeContext(scope)
\* const [store] = useContext(ScopeContext)
getScopeContextShared(scope) == "s1"

getScopeContext(scope) == scope

\* the record of the primitive cell P is made on its first read or write
openRecord(st, c) ==
  IF st.rec[c].v = Undef /\ atom(c).read = "self"
  THEN [st EXCEPT !.rec[c].v = atom(c).init]
  ELSE st

\* a read of c has to start a new evaluation
mustEvaluate(st, c) ==
  atom(c).read = "fn" /\ (status(st.rec[c]) = "none" \/ st.rec[c].stale)

\* store[READ_ATOM](atom): the memoized record, or a new evaluation of the
\* asynchronous cell: a new generation, the dependency edges rebuilt, the
\* computation in flight.
evaluate(st, c) ==
  LET st1 == openRecord(st, "P")
      g == st1.rec[c].gen + 1
      in == st1.rec["P"].v
  IN [st1 EXCEPT
        !.rec[c] = [@ EXCEPT !.gen = g, !.p = g, !.e = "none",
                             !.stale = FALSE, !.input = in,
                             !.dependencies = {"P"}],
        !.rec["P"].dependents = @ \cup {c},
        !.inflight = @ \cup {[cell |-> c, gen |-> g, input |-> in]}]

\* get(Q) in the read function of R: the recursive read of Q
readQ(st) == IF mustEvaluate(st, "Q") THEN evaluate(st, "Q") ELSE st

\* a new evaluation of R, get(Q) having left st: the edges rebuilt, and the
\* record holds what get(Q) gave: Q's value, or the error or the pending
\* marker get(Q) raised, which the read function of R does not catch
derive(st) ==
  [st EXCEPT
     !.rec["R"] = [@ EXCEPT !.stale = FALSE, !.dependencies = {"Q"},
                            !.p = st.rec["Q"].p,
                            !.e = IF st.rec["Q"].p = 0 THEN st.rec["Q"].e
                                  ELSE "none",
                            !.v = IF st.rec["Q"].p = 0
                                     /\ st.rec["Q"].e = "none"
                                  THEN st.rec["Q"].v ELSE @],
     !.rec["Q"].dependents = @ \cup {"R"}]

\* the asynchronous cells whose evaluation a read of c starts
starts(st, c) ==
  IF ~mustEvaluate(st, c) THEN {}
  ELSE IF c = "R" THEN {x \in {"Q"} : mustEvaluate(st, x)}
  ELSE {c}

READ_ATOM(st, c) ==
  IF ~mustEvaluate(st, c) THEN openRecord(st, c)
  ELSE IF c = "R" THEN derive(readQ(st))
  ELSE evaluate(st, c)

RECURSIVE reachable(_, _, _)
reachable(st, seen, k) ==
  IF k = 0 THEN seen
  ELSE reachable(st, seen \cup UNION {st.rec[b].dependents : b \in seen}, k - 1)

\* a pass that queues the notification of the changed cell only
propagateSelf(st, c) == [st EXCEPT !.pending = @ \cup {c}]

\* one propagation pass from the changed cell c: every cell reachable along
\* dependents edges is marked stale, and the notifications of c and of those
\* cells are queued
propagate(st, c) ==
  LET down == reachable(st, {c}, Cardinality(StoreCells)) \ {c} IN
  [st EXCEPT !.rec = [x \in StoreCells |->
                        IF x \in down THEN [st.rec[x] EXCEPT !.stale = TRUE]
                        ELSE st.rec[x]],
             !.pending = @ \cup down \cup {c}]

\* store[WRITE_ATOM](atom, update) on the primitive cell
WRITE_ATOM(st, c, arg) ==
  LET st1 == openRecord(st, c)
      next == IF arg.fn = "none" THEN arg.v ELSE Apply(arg, st1.rec[c].v)
  IN propagate([st1 EXCEPT !.rec[c].v = next], c)

\* What an asynchronous read function ends with: it resolves ("ok"), or it
\* rejects with the Error it threw ("Err").
Outcomes == {"ok", "Err"}

\* if (x): "none" stands for a field that is absent (undefined)
truthy(x) == x # "none"

\* the continuation of an in-flight read: it commits only when its
\* generation is still the record's
settleNoCheck(st, comp, res) ==
  LET st1 == [st EXCEPT !.inflight = @ \ {comp}] IN
  propagate([st1 EXCEPT !.rec[comp.cell] =
                 [@ EXCEPT !.p = 0, !.vgen = comp.gen,
                           !.v = IF res = "ok" THEN comp.input * 2 ELSE @,
                           !.e = IF res = "ok" THEN "none" ELSE res]],
            comp.cell)

settle(st, comp, res) ==
  LET st1 == [st EXCEPT !.inflight = @ \ {comp}]
      r == st.rec[comp.cell]
  IN IF comp.gen # r.gen \/ r.p # comp.gen THEN st1
     ELSE propagate([st1 EXCEPT !.rec[comp.cell] =
                       [@ EXCEPT !.p = 0, !.vgen = comp.gen,
                                 !.v = IF res = "ok" THEN comp.input * 2 ELSE @,
                                 !.e = IF res = "ok" THEN "none" ELSE res]],
                    comp.cell)

\* the listeners store[FLUSH_PENDING]() calls: those registered on a cell
\* with a queued notification, each once
RECURSIVE Ordered(_)
Ordered(ls) ==
  IF ls = {} THEN <<>>
  ELSE LET m == CHOOSE x \in ls : \A y \in ls : x <= y
       IN <<m>> \o Ordered(ls \ {m})

flushKeep(st) == st

FLUSH_PENDING(st) == [st EXCEPT !.pending = {}]

flushed(st) == Ordered(UNION {st.listeners[c] : c \in st.pending})

\* const isWritable = (atom) => !!atom.write
isWritable(c) == atom(c).write # "none"

\* getAtomValue of useAtom: what it throws ("none" when it returns the value)
\* the same with the tests in another order: the value first
getAtomValueStale(r) ==
  IF r.v # Undef THEN "none"
  ELSE IF truthy(r.e) THEN "read error"
  ELSE IF r.p # 0 THEN "read promise"
  ELSE IF r.w # 0 THEN "write promise"
  ELSE "no atom value"

\* the same with the read error tested after the pending write
getAtomValueLate(r) ==
  IF r.p # 0 THEN "read promise"
  ELSE IF r.w # 0 THEN "write promise"
  ELSE IF truthy(r.e) THEN "read error"
  ELSE IF r.v # Undef THEN "none"
  ELSE "no atom value"

getAtomValue(r) ==
  IF truthy(r.e) THEN "read error"
  ELSE IF r.p # 0 THEN "read promise"
  ELSE IF r.w # 0 THEN "write promise"
  ELSE IF r.v # Undef THEN "none"
  ELSE "no atom value"

\* ---------------------------------------------------------------- actions
NoArg == [fn |-> "none", v |-> 0]

\* the value the record of a holds, as getAtomState(a).value gives it
valueOf(map, a) == getAtomState(map, a)[a].value

\* What an operation did: its result (val, or the error thrown), the listener
\* calls it made in order with the value each listener read, the number of
\* times it invoked each read function, the value the cell's record held
\* before it (old) and, for a read that directly follows a successful read
\* of the same cell, the value that read returned (prev, else undefined).
Done(op, a, arg, cb, old, prev, note, S) ==
  [op |-> op, atom |-> a, arg |-> arg, cb |-> cb, err |-> S.err,
   val |-> IF S.err = "none" THEN S.val ELSE Undef,
   calls |-> S.calls, reads |-> S.reads, old |-> old, prev |-> prev,
   note |-> note, deps |-> S.deps]

\* the same for an operation on the adapter's store
StoreDone(op, c, arg, cb, err, val, calls, note) ==
  [op |-> op, atom |-> c, arg |-> arg, cb |-> cb, err |-> err,
   val |-> val, calls |-> calls, reads |-> [a \in Atoms |-> 0],
   old |-> Undef, prev |-> Undef, note |-> note, deps |-> NoDeps]

\* the operation has run: its records and what it did
Commit(S, hk, op, a, arg, cb, old, prev, note) ==
  /\ atomStateMap' = S.map
  /\ hooks' = hk
  /\ last' = Done(op, a, arg, cb, old, prev, note, S)
  /\ UNCHANGED <<atoms, store, scopes, storage>>

Init ==
  /\ atoms \in Programs
  /\ atomStateMap = << >>
  /\ store = NoStore
  /\ scopes = NoScopes
  /\ storage = NoStorage
  /\ hooks = [l \in Callbacks |-> [st |-> "unused", atom |-> "A"]]
  /\ last = Done("init", "A", NoArg, 0, Undef, Undef, "", Enter(<< >>, hooks, NoDeps))

\* The calls the stack may run out on in the application: a read recurses
\* without end only where read functions get each other (X and Y); in every
\* other application the stack does not run out.
Overflows ==
  IF atoms \cap {"X", "Y"} # {}
  THEN {f \in Frames : f.cell \in atoms}
  ELSE {NoFrame}

\* read(cell)
Read(a) ==
  \E f \in Overflows :
    Commit(readAtom(EnterOn(atomStateMap, hooks, last.deps, f), a, 1), hooks,
           "read", a, NoArg, 0, valueOf(atomStateMap, a),
           IF last.op = "read" /\ last.atom = a /\ last.err = "none"
           THEN last.val ELSE Undef,
           "")

\* setAtom(nextValue) = writeAtom(atom, nextValue)
Write(a, arg) ==
  \E f \in Overflows :
    Commit(setAtom(EnterOn(atomStateMap, hooks, last.deps, f), a, arg), hooks,
           "write", a, arg, 0, valueOf(atomStateMap, a), Undef, "")

\* listeners.add(callback); callback()
mount(S, l, a) == callback([S EXCEPT !.map[a].listeners = SetAdd(@, l)], l, 1)

\* an effect that throws returns no cleanup: its callback stays registered
mounted(S, l) ==
  IF noError(S) THEN S.hooks ELSE [S.hooks EXCEPT ![l].st = "failed"]

SubscribeDone(S, l, a) ==
  Commit(S, mounted(S, l), "subscribe", a, NoArg, l,
         valueOf(atomStateMap, a), Undef, "")

\* the effect of useAtom(atom); every run of the effect makes a new callback
Subscribe(l, a) ==
  /\ hooks[l].st = "unused"
  /\ \A k \in Callbacks : k < l => hooks[k].st # "unused"
  /\ \E f \in Overflows :
       SubscribeDone(
         mount(EnterOn(getAtomState(atomStateMap, a),
                       [hooks EXCEPT ![l] = [st |-> "mounted", atom |-> a]],
                       last.deps, f),
               l, a),
         l, a)

\* atomState.listeners.delete(callback), on the record the effect got: when
\* the WeakMap has dropped that record the map is left as it is
unmount(S, l, a) ==
  IF a \in DOMAIN S.map
  THEN [S EXCEPT !.map[a].listeners = SetDelete(@, l)]
  ELSE S

\* the cleanup of the effect; it may be called again after it has run
Unsubscribe(l) ==
  /\ hooks[l].st \in {"mounted", "unmounted"}
  /\ Commit(unmount(Enter(atomStateMap, hooks, last.deps), l, hooks[l].atom),
            [hooks EXCEPT ![l].st = "unmounted"],
            "unsubscribe", hooks[l].atom, NoArg, l,
            valueOf(atomStateMap, hooks[l].atom), Undef,
            IF hooks[l].st = "unmounted" THEN "again" ELSE "")

\* the cells that the read and write functions of c refer to
captures(c) ==
  CASE c \in {"B", "C"} -> {"A"}
    [] c = "D" -> {"A", "B", "C"}
    [] c \in {"X", "Y"} -> {"A", "X", "Y"}
    [] c \in {"K", "M", "W"} -> {"A", "G"}
    [] c = "V" -> {"A", "C"}
    [] OTHER -> {}

\* the cells the application and the effects of its components refer to:
\* a mounted effect holds its callback, which holds the atom
roots(held, hk) ==
  held \cup {hk[l].atom : l \in {m \in Callbacks : hk[m].st = "mounted"}}

\* the cells a reachable cell c keeps reachable: those its functions refer
\* to and, its record being reachable with it, those of its dependents Set
refs(map, c) ==
  captures(c) \cup
    (IF c \in DOMAIN map THEN ToSet(map[c].dependents) ELSE {})

RECURSIVE aliveFrom(_, _, _)
aliveFrom(map, seen, k) ==
  IF k = 0 THEN seen
  ELSE aliveFrom(map, seen \cup UNION {refs(map, c) : c \in seen}, k - 1)

\* the same, the references between cells being left out
aliveHeld(map, held, hk) == roots(held, hk)

\* the atoms that are reachable, which the WeakMap keeps the entries of
alive(map, held, hk) == aliveFrom(map, roots(held, hk), Cardinality(Atoms))

\* atomStateMap without the entry of a
drop(map, a) == [b \in DOMAIN map \ {a} |-> map[b]]

\* The application lets go of the atom a: it makes no further call on it.
Release(a) ==
  /\ a \in atoms
  /\ atoms' = atoms \ {a}
  /\ last' = Done("release", a, NoArg, 0, valueOf(atomStateMap, a), Undef, "",
                  Enter(atomStateMap, hooks, last.deps))
  /\ UNCHANGED <<atomStateMap, store, scopes, storage, hooks>>

\* The atom a is garbage collected and the WeakMap drops its entry: a is
\* not reachable.
Discard(a) ==
  /\ a \in DOMAIN atomStateMap
  /\ a \notin alive(atomStateMap, atoms, hooks)
  /\ Commit([Enter(atomStateMap, hooks, last.deps) EXCEPT
               !.map = drop(atomStateMap, a)],
            hooks, "discard", a, NoArg, 0, valueOf(atomStateMap, a), Undef, "")

\* setAtom(update) of a cell made with atomWithStorage: the cell's write runs
\* in the store and the item is saved to, or deleted from, storage
StorageWrite(a, arg) ==
  /\ atomStateMap' = setAtom(Enter(atomStateMap, hooks, last.deps), a, arg).map
  /\ storage' = writeItem(storage, keyOf(a),
                          nextValue(arg, valueOf(atomStateMap, a)))
  /\ last' = Done("write", a, arg, 0, valueOf(atomStateMap, a), Undef, "",
                  setAtom(Enter(atomStateMap, hooks, last.deps), a, arg))
  /\ UNCHANGED <<atoms, store, scopes, hooks>>

\* useAtom.ts: const value = useSyncExternalStore(subscribe, getAtomValue)
StoreRead(c) ==
  /\ \A x \in starts(store, c) : store.rec[x].gen < MaxGen
  /\ LET st == READ_ATOM(store, c)
         thrown == getAtomValue(st.rec[c])
     IN /\ store' = st
        /\ last' = StoreDone("read", c, NoArg, 0, thrown,
                             IF thrown = "none" THEN st.rec[c].v ELSE Undef,
                             <<>>,
                             IF mustEvaluate(store, c) THEN "evaluated" ELSE "")
  /\ UNCHANGED <<atoms, atomStateMap, scopes, storage, hooks>>

\* useAtom.ts: setAtom(update)
StoreWrite(c, arg) ==
  /\ IF isWritable(c)
     THEN /\ store' = WRITE_ATOM(store, c, arg)
          /\ last' = StoreDone("write", c, arg, 0, "none", Undef, <<>>, "")
     ELSE /\ store' = store
          /\ last' = StoreDone("write", c, arg, 0, "not writable atom",
                               Undef, <<>>, "")
  /\ UNCHANGED <<atoms, atomStateMap, scopes, storage, hooks>>

\* useAtom.ts: subscribe = (callback) => store[SUBSCRIBE_ATOM](atom, callback)
StoreSubscribe(l, c) ==
  /\ hooks[l].st = "unused"
  /\ \A k \in Callbacks : k < l => hooks[k].st # "unused"
  /\ store' = [store EXCEPT !.listeners[c] = @ \cup {l}]
  /\ hooks' = [hooks EXCEPT ![l] = [st |-> "mounted", atom |-> c]]
  /\ last' = StoreDone("subscribe", c, NoArg, l, "none", Undef, <<>>, "")
  /\ UNCHANGED <<atoms, atomStateMap, scopes, storage>>

\* the handle store[SUBSCRIBE_ATOM] returned
StoreUnsubscribe(l) ==
  /\ hooks[l].st \in {"mounted", "unmounted"}
  /\ store' = [store EXCEPT !.listeners[hooks[l].atom] = @ \ {l}]
  /\ hooks' = [hooks EXCEPT ![l].st = "unmounted"]
  /\ last' = StoreDone("unsubscribe", hooks[l].atom, NoArg, l, "none", Undef,
                       <<>>, IF hooks[l].st = "unmounted" THEN "again" ELSE "")
  /\ UNCHANGED <<atoms, atomStateMap, scopes, storage>>

\* useAtom.ts: useEffect(() => { store[FLUSH_PENDING]() })
FlushPending ==
  /\ store' = FLUSH_PENDING(store)
  /\ last' = StoreDone("flush", "P", NoArg, 0, "none", Undef,
                       [i \in 1..Len(flushed(store)) |->
                          [cb |-> flushed(store)[i], v |-> Undef]],
                       IF store.pending = {} THEN "empty" ELSE "drained")
  /\ UNCHANGED <<atoms, atomStateMap, scopes, storage, hooks>>

\* an in-flight read resolves or rejects
Settle(comp, res) ==
  /\ comp \in store.inflight
  /\ store' = settle(store, comp, res)
  /\ last' = StoreDone("settle", comp.cell, NoArg, 0,
                       IF res = "ok" THEN "none" ELSE res, comp.gen, <<>>,
                       IF store'.rec[comp.cell].vgen = comp.gen
                       THEN "committed" ELSE "discarded")
  /\ UNCHANGED <<atoms, atomStateMap, scopes, storage, hooks>>

\* The same operations of useAtom(atom, scope), on the store of the scope.
ScopeDone(s, st, hk, op, c, arg, cb, err, val, calls) ==
  /\ scopes' = [scopes EXCEPT ![getScopeContext(s)] = st]
  /\ hooks' = hk
  /\ last' = StoreDone(op, c, arg, cb, err, val, calls, s)
  /\ UNCHANGED <<atoms, atomStateMap, store, storage>>

ScopeRead(s, c) ==
  /\ mustEvaluate(scopes[getScopeContext(s)], c)
       => scopes[getScopeContext(s)].rec[c].gen < MaxGen
  /\ ScopeDone(s, READ_ATOM(scopes[getScopeContext(s)], c), hooks,
               "read", c, NoArg, 0,
               getAtomValue(READ_ATOM(scopes[getScopeContext(s)], c).rec[c]),
               IF getAtomValue(READ_ATOM(scopes[getScopeContext(s)], c).rec[c])
                    = "none"
               THEN READ_ATOM(scopes[getScopeContext(s)], c).rec[c].v
               ELSE Undef,
               <<>>)

ScopeWrite(s, c, arg) ==
  IF isWritable(c)
  THEN ScopeDone(s, WRITE_ATOM(scopes[getScopeContext(s)], c, arg), hooks,
                 "write", c, arg, 0, "none", Undef, <<>>)
  ELSE ScopeDone(s, scopes[getScopeContext(s)], hooks,
                 "write", c, arg, 0, "not writable atom", Undef, <<>>)

ScopeSubscribe(l, s, c) ==
  /\ hooks[l].st = "unused"
  /\ \A k \in Callbacks : k < l => hooks[k].st # "unused"
  /\ ScopeDone(s, [scopes[getScopeContext(s)] EXCEPT
                     !.listeners[c] = @ \cup {l}],
               [hooks EXCEPT ![l] = [st |-> "mounted", atom |-> c,
                                     scope |-> s]],
               "subscribe", c, NoArg, l, "none", Undef, <<>>)

ScopeUnsubscribe(l) ==
  /\ hooks[l].st \in {"mounted", "unmounted"}
  /\ ScopeDone(hooks[l].scope,
               [scopes[getScopeContext(hooks[l].scope)] EXCEPT
                  !.listeners[hooks[l].atom] = @ \ {l}],
               [hooks EXCEPT ![l].st = "unmounted"],
               "unsubscribe", hooks[l].atom, NoArg, l, "none", Undef, <<>>)

ScopeFlush(s) ==
  ScopeDone(s, FLUSH_PENDING(scopes[getScopeContext(s)]), hooks,
            "flush", "P", NoArg, 0, "none", Undef,
            [i \in 1..Len(flushed(scopes[getScopeContext(s)])) |->
               [cb |-> flushed(scopes[getScopeContext(s)])[i], v |-> Undef]])

Computations == [cell : {"Q"}, gen : 1..MaxGen, input : Values]

Next ==
  \/ \E a \in atoms : Read(a)
  \/ \E a \in atoms : \E arg \in UpdatesOf(a) : Write(a, arg)
  \/ \E l \in Callbacks, a \in atoms \cap Mounted : Subscribe(l, a)
  \/ \E l \in Callbacks : Unsubscribe(l)

Spec == Init /\ [][Next]_vars

\* an application that lets go of atoms while it runs, with the garbage
\* collector at work
GcInit ==
  /\ atoms = {"A", "G", "K"}
  /\ atomStateMap = << >>
  /\ store = NoStore
  /\ scopes = NoScopes
  /\ storage = NoStorage
  /\ hooks = [l \in Callbacks |-> [st |-> "unused", atom |-> "A"]]
  /\ last = Done("init", "A", NoArg, 0, Undef, Undef, "",
                 Enter(<< >>, hooks, NoDeps))

\* the cells its components mount: also the primitive G, which the first
\* component to render may use
GcMounted == Mounted \cup {"G"}

GcNext ==
  \/ Next
  \/ \E a \in atoms \cap (GcMounted \ Mounted) : Subscribe(1, a)
  \/ \E a \in atoms : Release(a)
  \/ \E a \in Atoms : Discard(a)

GcSpec == GcInit /\ [][GcNext]_vars

\* an application with a cell whose write function reads a derived cell:
\* const A = atom(1); const C = atom((get) => get(A) * 2)
\* const V = atom(0, (get, set, arg) => set(V, get(C)))
WriteInit ==
  /\ atoms = {"A", "C", "V"}
  /\ atomStateMap = << >>
  /\ store = NoStore
  /\ scopes = NoScopes
  /\ storage = NoStorage
  /\ hooks = [l \in Callbacks |-> [st |-> "unused", atom |-> "A"]]
  /\ last = Done("init", "A", NoArg, 0, Undef, Undef, "",
                 Enter(<< >>, hooks, NoDeps))

WriteSpec == WriteInit /\ [][Next]_vars

\* an application with one cell made with atomWithStorage, nothing stored
StorageInit ==
  /\ atoms = {"T"}
  /\ atomStateMap = << >>
  /\ store = NoStore
  /\ scopes = NoScopes
  /\ storage = NoStorage
  /\ hooks = [l \in Callbacks |-> [st |-> "unused", atom |-> "T"]]
  /\ last = Done("init", "T", NoArg, 0, Undef, Undef, "", Enter(<< >>, hooks, NoDeps))

StorageNext ==
  \/ \E a \in atoms : Read(a)
  \/ \E a \in atoms : \E arg \in UpdatesOf(a) : StorageWrite(a, arg)
  \/ \E l \in Callbacks, a \in atoms \cap Mounted : Subscribe(l, a)
  \/ \E l \in Callbacks : Unsubscribe(l)

StorageSpec == StorageInit /\ [][StorageNext]_vars

\* the atom states getAtomValue is applied to: each of the four fields it
\* tests (e, p, w, v) present or not
AtomStates ==
  {[NoRecord EXCEPT !.e = e, !.p = p, !.w = w, !.v = v] :
     e \in {"none"} \cup (Outcomes \ {"ok"}), p \in 0..MaxGen, w \in {0, 1},
     v \in {Undef} \cup Values}

\* useAtom.ts: getAtomValue(), store[READ_ATOM](atom) returning r
ValueRead(c, r) ==
  /\ store' = [store EXCEPT !.rec[c] = r]
  /\ last' = StoreDone("value", c, NoArg, 0, getAtomValue(r),
                       IF getAtomValue(r) = "none" THEN r.v ELSE Undef,
                       <<>>, "")
  /\ UNCHANGED <<atoms, atomStateMap, scopes, storage, hooks>>

ValueNext == \E c \in atoms, r \in AtomStates : ValueRead(c, r)

\* the value getter applied to the derived cells Q and R
ValueInit ==
  /\ atoms = {"Q", "R"}
  /\ atomStateMap = << >>
  /\ store = NoStore
  /\ scopes = NoScopes
  /\ storage = NoStorage
  /\ hooks = [l \in Callbacks |-> [st |-> "unused", atom |-> "Q"]]
  /\ last = StoreDone("init", "Q", NoArg, 0, "none", Undef, <<>>, "")

StoreInit ==
  /\ atoms = {"P", "Q"}
  /\ atomStateMap = << >>
  /\ store = NoStore
  /\ scopes = NoScopes
  /\ storage = NoStorage
  /\ hooks = [l \in Callbacks |-> [st |-> "unused", atom |-> "Q"]]
  /\ last = StoreDone("init", "P", NoArg, 0, "none", Undef, <<>>, "")

StoreNext ==
  \/ \E c \in atoms : StoreRead(c)
  \/ \E c \in atoms, arg \in Updates : StoreWrite(c, arg)
  \/ \E l \in Callbacks, c \in atoms \cap Mounted : StoreSubscribe(l, c)
  \/ \E l \in Callbacks : StoreUnsubscribe(l)
  \/ FlushPending
  \/ \E comp \in Computations, res \in Outcomes : Settle(comp, res)

StoreSpec == StoreInit /\ [][StoreNext]_vars

\* the application that runs in two scopes defines the cell P
ValueSpec == ValueInit /\ [][ValueNext]_vars

\* the application with the chain P -> Q -> R on the adapter's store
ChainInit ==
  /\ atoms = {"P", "Q", "R"}
  /\ atomStateMap = << >>
  /\ store = NoStore
  /\ scopes = NoScopes
  /\ storage = NoStorage
  /\ hooks = [l \in Callbacks |-> [st |-> "unused", atom |-> "R"]]
  /\ last = StoreDone("init", "P", NoArg, 0, "none", Undef, <<>>, "")

\* it renders Q and R, reads them and writes plain values to P
ChainNext ==
  \/ \E c \in {"Q", "R"} : StoreRead(c)
  \/ \E v \in Values : StoreWrite("P", Plain(v))
  \/ \E l \in Callbacks, c \in {"Q", "R"} : StoreSubscribe(l, c)
  \/ FlushPending
  \/ \E comp \in Computations, res \in Outcomes : Settle(comp, res)

ChainSpec == ChainInit /\ [][ChainNext]_vars

ScopeInit ==
  /\ atoms = {"P"}
  /\ atomStateMap = << >>
  /\ store = NoStore
  /\ scopes = NoScopes
  /\ storage = NoStorage
  /\ hooks = [l \in Callbacks |-> [st |-> "unused", atom |-> "P",
                                   scope |-> "s1"]]
  /\ last = StoreDone("init", "P", NoArg, 0, "none", Undef, <<>>, "s1")

ScopeNext ==
  \/ \E s \in Scopes, c \in atoms : ScopeRead(s, c)
  \/ \E s \in Scopes, c \in atoms, arg \in Updates : ScopeWrite(s, c, arg)
  \/ \E l \in Callbacks, s \in Scopes, c \in atoms : ScopeSubscribe(l, s, c)
  \/ \E l \in Callbacks : ScopeUnsubscribe(l)
  \/ \E s \in Scopes : ScopeFlush(s)

ScopeSpec == ScopeInit /\ [][ScopeNext]_vars

\* ---------------------------------------------------------------- properties
Listeners(a) ==
  IF a \in DOMAIN atomStateMap THEN ToSet(atomStateMap[a].listeners) ELSE {}

Dependents(a) ==
  IF a \in DOMAIN atomStateMap THEN ToSet(atomStateMap[a].dependents) ELSE {}

\* the number of times the operation called listener l
Count(calls, l) == Cardinality({i \in 1..Len(calls) : calls[i].cb = l})

\* the cells reachable from a along dependents edges, a included
RECURSIVE Reach(_, _)
Reach(seen, k) ==
  IF k = 0 THEN seen
  ELSE Reach(seen \cup UNION {Dependents(b) : b \in seen}, k - 1)

Downstream(a) == Reach({a}, Cardinality(Atoms))

\* the value the read function of a yields from the current values of the
\* cells it reads, computed without any record being written
RECURSIVE yield(_, _, _)
yield(map, a, got) ==
  LET step == ReadFn(a, got) IN
  IF step.op = "return" THEN step.v
  ELSE IF step.a = a THEN yield(map, a, Append(got, valueOf(map, a)))
  ELSE yield(map, a, Append(got, yield(map, step.a, <<>>)))

Diamond ==
  /\ {"B", "C"} \subseteq Dependents("A")
  /\ "D" \in Dependents("B")
  /\ "D" \in Dependents("C")

\* C1: with the diamond A -> {B, C} -> D established by earlier reads, one
\* write to A that changes its value calls every listener registered on D
\* exactly once.
C1_DiamondOnce ==
  (/\ last.op = "write" /\ last.atom = "A" /\ last.err = "none"
   /\ valueOf(atomStateMap, "A") # last.old
   /\ Diamond)
  => \A l \in Listeners("D") : Count(last.calls, l) = 1

\* C2: a read of a derived cell that directly follows a read of the same cell, with
\* no write in between, returns the same value and does not invoke the
\* cell's read function again.
C2_Memoized ==
  (last.op = "read" /\ atom(last.atom).read = "fn" /\ last.prev # Undef)
  => (last.val = last.prev /\ last.reads[last.atom] = 0)

\* C3: a read that returns gives the value the cell's read function yields
\* from the current values of the cells it reads, whatever value the record
\* held before the read.
C3_Fresh ==
  (last.op = "read" /\ last.err = "none")
  => last.val = yield(atomStateMap, last.atom, <<>>)

\* "doubled" was cached as 2 (price = 1), price was then written 0, and the
\* read of doubled returned 0.
C3_Witness ==
  /\ last.op = "read" /\ last.atom = "C" /\ last.err = "none"
  /\ last.old = 2 /\ last.val = 0

\* C5: one write to the primitive cell A calls each listener that subscribe
\* registered on a derived cell depending on A exactly once.
C5_ListenerOnce ==
  (last.op = "write" /\ last.atom = "A")
  => \A d \in Downstream("A") \ {"A"} : \A l \in Listeners(d) :
       hooks[l].st = "mounted" => Count(last.calls, l) = 1

\* C6: after write(p, u) on a primitive cell the record holds u(old value)
\* when u is a function and u otherwise, so write(p, v) and write(p, () => v)
\* leave the same value; and a read of p returns the value its record holds.
C6_Update ==
  /\ (last.op = "write" /\ atom(last.atom).write = "default")
     => valueOf(atomStateMap, last.atom) =
          (IF last.arg.fn = "none" THEN last.arg.v
           ELSE Apply(last.arg, last.old))
  /\ (last.op = "read" /\ atom(last.atom).read = "self")
     => (last.err = "none" /\ last.val = last.old)

\* the functional update (x) => (x + 1) % (MaxVal + 1) applied to a value
\* that is not the initial one
C6_Witness ==
  /\ last.op = "write" /\ last.atom = "A" /\ last.arg.fn = "succ"
  /\ last.old = 0 /\ valueOf(atomStateMap, "A") = 1

\* C7: a write to a cell that has no write function throws to the caller.
C7_NotWritable ==
  (last.op = "write" /\ atom(last.atom).write = "none")
  => last.err # "none"

C7_Witness ==
  last.op = "write" /\ last.atom = "C" /\ last.err = "TypeError"

\* C8: a read of a cell whose evaluation reads itself through other cells
\* fails with the dedicated error CyclicDependency as soon as the cycle
\* closes (its read function is entered once), and no cell of the cycle
\* has a value memoized.
C8_CycleFailsFast ==
  (last.op = "read" /\ last.atom \in {"X", "Y"})
  => /\ last.err = "CyclicDependency"
     /\ last.reads[last.atom] <= 1
     /\ valueOf(atomStateMap, "X") = Undef
     /\ valueOf(atomStateMap, "Y") = Undef

\* C9: a callback whose unsubscribe handle has been called is registered on
\* no cell and is called by no later operation; calling the handle again
\* changes no record, and a call of the handle removes no other listener.
C9_Unsubscribe ==
  [][/\ \A l \in Callbacks : hooks[l].st = "unmounted"
          => /\ Count(last'.calls, l) = 0
             /\ \A a \in DOMAIN atomStateMap' :
                  l \notin ToSet(atomStateMap'[a].listeners)
     /\ (last'.op = "unsubscribe" /\ hooks[last'.cb].st = "unmounted")
          => (atomStateMap' = atomStateMap /\ hooks' = hooks)
     /\ last'.op = "unsubscribe"
          => \A a \in DOMAIN atomStateMap :
               ToSet(atomStateMap'[a].listeners) \cup {last'.cb}
                 = ToSet(atomStateMap[a].listeners) \cup {last'.cb}
    ]_vars

\* callback 1 was unsubscribed from "doubled", callback 2 is still
\* registered on it, and a write to A called 2 once and 1 not at all
C9_Witness ==
  /\ hooks[1].st = "unmounted" /\ hooks[1].atom = "C"
  /\ hooks[2].st = "mounted" /\ hooks[2].atom = "C"
  /\ last.op = "write" /\ last.atom = "A" /\ last.err = "none"
  /\ Count(last.calls, 2) = 1 /\ Count(last.calls, 1) = 0

\* C4: of the computations started for one cell only the most recently
\* started one commits: a record that is not pending holds what the
\* computation of its latest generation produced, and a settlement that
\* commits is the one of the record's generation.
C4_LatestCommits ==
  /\ \A c \in StoreCells :
       LET r == store.rec[c] IN
       (r.gen > 0 /\ r.p = 0)
         => /\ r.vgen = r.gen
            /\ r.e = "none" => r.v = r.input * 2
  /\ (last.op = "settle" /\ last.note = "committed")
       => last.val = store.rec[last.atom].gen

\* two computations of Q were started before either settled (P was written
\* in between), the second settled, then the first: it was discarded and Q
\* holds the second one's result
C4_Witness ==
  /\ last.op = "settle" /\ last.val = 1 /\ last.note = "discarded"
  /\ store.rec["Q"].gen = 2 /\ store.rec["Q"].p = 0
  /\ store.rec["Q"].e = "none"
  /\ store.rec["Q"].v = store.rec["Q"].input * 2
  /\ store.inflight = {}

\* C10: flushPending empties the queue, calls once each listener registered
\* on a cell with a queued notification and no other, and changes no record;
\* with nothing queued it calls no listener and changes nothing.
C10_FlushIdempotent ==
  [][last'.op = "flush"
       => /\ store'.pending = {}
          /\ store'.rec = store.rec
          /\ store'.listeners = store.listeners
          /\ \A l \in Callbacks :
               Count(last'.calls, l) =
                 IF \E c \in store.pending : l \in store.listeners[c]
                 THEN 1 ELSE 0
          /\ store.pending = {} => (last'.calls = <<>> /\ store' = store)
    ]_vars

\* a flush with nothing queued, in a store with a registered listener and
\* an established dependency
C10_Witness ==
  /\ last.op = "flush" /\ last.note = "empty"
  /\ store.listeners["Q"] # {}
  /\ "Q" \in store.rec["P"].dependents

\* C11: while the record of Q holds the error its read function raised
\* (Q is errored and has not been re-evaluated), every read of Q and every
\* read of R, whose read function gets Q without catching, raises that
\* error: the reader's record holds the error of Q and the value getter
\* throws it, whatever value the record still holds.
C11_ErrorSticky ==
  (/\ last.op = "read" /\ last.atom \in {"Q", "R"}
   /\ store.rec["Q"].e # "none" /\ store.rec["Q"].p = 0)
  => /\ last.err = "read error"
     /\ store.rec[last.atom].e = store.rec["Q"].e
     /\ store.rec[last.atom].p = 0

\* Q was rejected with an Error after R had held a value: a read of R, on
\* which a listener is registered, raised the error of Q
C11_Witness ==
  /\ last.op = "read" /\ last.atom = "R" /\ last.err = "read error"
  /\ store.rec["Q"].e = "Err" /\ store.rec["R"].e = "Err"
  /\ store.rec["R"].v # Undef
  /\ store.listeners["R"] # {}

\* C12: a functional update f written to a primitive cell whose current
\* value is a promise leaves the cell with f(resolved value), as a value or
\* as a promise of it.
C12_AwaitedUpdate ==
  (/\ last.op = "write" /\ atom(last.atom).write = "default"
   /\ last.arg.fn \in {"succ", "asyncSucc"} /\ IsPromise(last.old))
  => valueOf(atomStateMap, last.atom)
       \in {Succ(Resolved(last.old)), Promise(Succ(Resolved(last.old)))}

\* C13: an operation on the store of one scope changes no record, no queue
\* and no listener set of the store of another scope, and calls no callback
\* that was subscribed in another scope.
C13_Isolation ==
  [][\A t \in Scopes : t # last'.note
       => /\ scopes'[t] = scopes[t]
          /\ \A l \in Callbacks :
               (hooks[l].st # "unused" /\ hooks[l].scope = t)
                 => Count(last'.calls, l) = 0
    ]_vars

\* both scopes hold a record of P, with different values; a flush in s1
\* called a listener while a notification is still queued in s2, where
\* another listener is registered
C13_Witness ==
  /\ last.op = "flush" /\ last.note = "s1" /\ last.calls # <<>>
  /\ scopes["s1"].rec["P"].v # Undef /\ scopes["s2"].rec["P"].v # Undef
  /\ scopes["s1"].rec["P"].v # scopes["s2"].rec["P"].v
  /\ scopes["s2"].pending # {}
  /\ scopes["s2"].listeners["P"] # {}

\* C14: RESET is never the value of a cell nor a stored item; after a
\* write to the cell T made with atomWithStorage('text', 1) whose update is
\* RESET, or (prev) => RESET, or (prev) => prev ? RESET : true with a truthy
\* prev, the cell holds its initial value 1 and storage has no item 'text';
\* after a write of a value, given directly or returned by a function, the
\* cell holds that value and it is the stored item.
C14_Reset ==
  /\ \A a \in atoms : valueOf(atomStateMap, a) # RESET
  /\ \A k \in DOMAIN storage : storage[k] # RESET
  /\ (last.op = "write" /\ last.atom = "T")
       => IF \/ last.arg = [fn |-> "none", v |-> RESET]
             \/ last.arg = [fn |-> "const", v |-> RESET]
             \/ last.arg.fn = "toggle" /\ last.old \notin {0, Undef, NaN}
          THEN /\ valueOf(atomStateMap, "T") = 1
               /\ storage["text"] = Undef
          ELSE /\ storage["text"] = valueOf(atomStateMap, "T")
               /\ last.arg.fn \in {"none", "const"}
                    => valueOf(atomStateMap, "T") = last.arg.v
               /\ last.arg.fn = "toggle" => valueOf(atomStateMap, "T") = 1
               /\ last.arg.fn = "succ"
                    => valueOf(atomStateMap, "T") \notin {last.old, Undef}

\* the cell held 0, not its initial value, and the item 0 was stored; the
\* functional update (prev) => RESET set the cell back to 1 and removed the
\* item, and a listener was told
C14_Witness ==
  /\ last.op = "write" /\ last.atom = "T"
  /\ last.arg = [fn |-> "const", v |-> RESET] /\ last.old = 0
  /\ valueOf(atomStateMap, "T") = 1 /\ storage["text"] = Undef
  /\ last.calls # <<>>

\* the cells from which d is reached along the dependencies of the most
\* recent evaluations, d included
RECURSIVE Upstream(_, _)
Upstream(seen, k) ==
  IF k = 0 THEN seen
  ELSE Upstream(seen \cup UNION {last.deps[b] : b \in seen}, k - 1)

\* C15: after a recomputation of a derived cell the cells that hold it as a
\* dependent are exactly the cells its read function passed to get in that
\* recomputation; and a write calls a listener of a cell only if that cell
\* depends on the written cell by the dependencies of the most recent
\* evaluations.
C15_DependencyAccuracy ==
  /\ (last.op = "read" /\ last.err = "none" /\ atom(last.atom).read = "fn")
       => {b \in atoms : last.atom \in Dependents(b)} = last.deps[last.atom]
  /\ (last.op = "write" /\ last.err = "none")
       => \A l \in Callbacks :
            Count(last.calls, l) > 0
              => last.atom \in Upstream({hooks[l].atom}, Cardinality(Atoms))

\* C16: between operations, B is in the dependents of A if and only if A is
\* among the cells B passed to get in its most recent evaluation.
C16_EdgeSymmetry ==
  \A a \in atoms, b \in atoms :
    b \in Dependents(a) <=> a \in last.deps[b]

\* C17: one write whose write function calls set on two cells calls a
\* listener of a cell that depends on both exactly once.
C17_Coalesced ==
  (last.op = "write" /\ atom(last.atom).write = "both" /\ last.err = "none")
  => \A l \in Listeners("M") :
       hooks[l].st = "mounted" => Count(last.calls, l) = 1

\* C18: every value a listener read while a write was running is the value
\* its cell has in the state the write leaves, with every set applied.
C18_NoIntermediate ==
  (last.op = "write" /\ last.err = "none")
  => \A i \in 1..Len(last.calls) :
       last.calls[i].v
         = yield(atomStateMap, hooks[last.calls[i].cb].atom, <<>>)

\* the cells reached from c along dependents edges in the chain, c included
chain(c) ==
  {d \in StoreCells :
     \/ d = c
     \/ d \in store.rec[c].dependents
     \/ \E m \in store.rec[c].dependents : d \in store.rec[m].dependents}

\* C19: while the most recent computation of a cell is in flight the record
\* is pending-read and a read throws the promise; when that computation
\* settles the record is no longer pending: it is settled with the resolved
\* value, or errored with the error, and a propagation pass has queued the
\* notifications of the cell and of its transitive dependents, so that the
\* next flush calls the listeners of all of them, and has invalidated the
\* dependents.
C19_Settlement ==
  /\ \A comp \in store.inflight :
       comp.gen = store.rec[comp.cell].gen
         => /\ status(store.rec[comp.cell]) = "pending-read"
            /\ getAtomValue(store.rec[comp.cell]) = "read promise"
  /\ (last.op = "settle" /\ last.note = "committed")
       => /\ store.rec[last.atom].p = 0
          /\ IF last.err = "none"
             THEN /\ status(store.rec[last.atom]) = "settled"
                  /\ store.rec[last.atom].v = store.rec[last.atom].input * 2
             ELSE /\ status(store.rec[last.atom]) = "errored"
                  /\ store.rec[last.atom].e = last.err
          /\ \A d \in chain(last.atom) :
               /\ d \in store.pending
               /\ d # last.atom => store.rec[d].stale
               /\ \A l \in store.listeners[d] :
                    \E i \in 1..Len(flushed(store)) : flushed(store)[i] = l

\* the read of Q was rejected with an Error while R, which had read Q, and
\* Q itself each have a listener: Q is errored and the notifications of both
\* cells are queued
C19_Witness ==
  /\ last.op = "settle" /\ last.note = "committed" /\ last.err = "Err"
  /\ status(store.rec["Q"]) = "errored"
  /\ "R" \in store.rec["Q"].dependents
  /\ store.listeners["Q"] # {} /\ store.listeners["R"] # {}
  /\ {"Q", "R"} \subseteq store.pending
  /\ Len(flushed(store)) = 2

\* what the caller of an operation and the listeners see of it
outcome(S) ==
  [err |-> S.err, val |-> IF noError(S) THEN S.val ELSE Undef,
   calls |-> S.calls]

\* the records an operation leaves, absent records being those that
\* getAtomState would create
records(S) ==
  [a \in alive(atomStateMap, atoms, hooks) |-> getAtomState(S.map, a)[a]]

\* the operations an application can make next on the records map
readOn(map, c) == readAtom(Enter(map, hooks, NoDeps), c, 1)
writeOn(map, c, arg) == setAtom(Enter(map, hooks, NoDeps), c, arg)
mountOn(map, l, c) ==
  mount(Enter(getAtomState(map, c),
              [hooks EXCEPT ![l] = [st |-> "mounted", atom |-> c]], NoDeps),
        l, c)

\* every next operation on a cell of cs has the same result and makes the
\* same listener calls on the maps m1 and m2
SameOutcomesOn(cs, m1, m2) ==
  /\ \A c \in cs : outcome(readOn(m1, c)) = outcome(readOn(m2, c))
  /\ \A c \in cs : \A arg \in UpdatesOf(c) :
       outcome(writeOn(m1, c, arg)) = outcome(writeOn(m2, c, arg))
  /\ \A l \in Callbacks : \A c \in cs \cap GcMounted :
       hooks[l].st = "unused"
         => outcome(mountOn(m1, l, c)) = outcome(mountOn(m2, l, c))

SameOutcomes(m1, m2) == SameOutcomesOn(atoms, m1, m2)

\* and leaves the same records
SameRecords(m1, m2) ==
  /\ \A c \in atoms : records(readOn(m1, c)) = records(readOn(m2, c))
  /\ \A c \in atoms : \A arg \in UpdatesOf(c) :
       records(writeOn(m1, c, arg)) = records(writeOn(m2, c, arg))
  /\ \A l \in Callbacks : \A c \in atoms \cap GcMounted :
       hooks[l].st = "unused"
         => records(mountOn(m1, l, c)) = records(mountOn(m2, l, c))

\* C20 (as claimed): removing, at any point, the record of a cell that has
\* no listeners and no dependents changes the result and the listener calls
\* of no later operation.
C20_DiscardUnobservable ==
  \A a \in DOMAIN atomStateMap :
    (atomStateMap[a].listeners = <<>> /\ atomStateMap[a].dependents = <<>>)
      => SameOutcomes(atomStateMap, drop(atomStateMap, a))

\* C20 (amended): the removal of the record of an unreachable cell, the only
\* removal there is, changes the result and the listener calls of no later
\* operation, and every operation leaves the records of the reachable cells
\* it would have left with the record kept.
C20_DiscardUnreachable ==
  [][last'.op = "discard"
       => /\ SameOutcomes(atomStateMap, atomStateMap')
          /\ SameRecords(atomStateMap, atomStateMap')
    ]_vars

\* the record of the primitive G was removed with the value 0 it had been
\* written, the application having let go of G and of K and the effect that
\* was mounted on G having been cleaned up; it still holds A, whose record
\* has the written value 0
C20_Witness ==
  /\ last.op = "discard" /\ last.atom = "G" /\ last.old = 0
  /\ "G" \notin DOMAIN atomStateMap
  /\ \E l \in Callbacks : hooks[l].atom = "G" /\ hooks[l].st = "unmounted"
  /\ "A" \in atoms
  /\ "A" \in DOMAIN atomStateMap /\ valueOf(atomStateMap, "A") = 0

\* C21: a call of get inside a write function returns the current value of
\* the cell it names and changes no dependencies or dependents set: after a
\* write of V, whose write function stores get(C), V holds the value C's
\* read function yields from the current values, and every cell has the
\* dependents and the dependencies it had before the write.
C21_UntrackedGet ==
  [][(last'.op = "write" /\ last'.atom = "V" /\ last'.err = "none")
       => /\ valueOf(atomStateMap', "V") = yield(atomStateMap', "C", <<>>)
          /\ \A a \in atoms :
               (IF a \in DOMAIN atomStateMap'
                THEN ToSet(atomStateMap'[a].dependents) ELSE {}) = Dependents(a)
          /\ last'.deps = last.deps
    ]_vars

\* the frame part of C21 alone: the write of V adds and removes no edge
C21_NoEdges ==
  [][(last'.op = "write" /\ last'.atom = "V" /\ last'.err = "none")
       => /\ \A a \in atoms :
               (IF a \in DOMAIN atomStateMap'
                THEN ToSet(atomStateMap'[a].dependents) ELSE {}) = Dependents(a)
          /\ last'.deps = last.deps
    ]_vars

\* C22: get(a) inside the read function of a returns the value a's record
\* holds, invokes no read function and adds no edge: no cell is among its
\* own dependents or its own dependencies, and a read of a primitive cell
\* ends without error, having invoked the cell's read function once, returns
\* the value the record held (the cell's init when it was never assigned)
\* and leaves it in the record.
C22_SelfRead ==
  /\ \A a \in atoms : a \notin Dependents(a) /\ a \notin last.deps[a]
  /\ (last.op = "read" /\ atom(last.atom).read = "self")
       => /\ last.err = "none"
          /\ last.val = last.old
          /\ valueOf(atomStateMap, last.atom) = last.old
          /\ \A a \in atoms :
               last.reads[a] = IF a = last.atom THEN 1 ELSE 0

\* the primitive A, written 0 and with dependents, was read: one invocation
\* of its read function returned 0
C22_Witness ==
  /\ last.op = "read" /\ last.atom = "A" /\ last.err = "none"
  /\ last.val = 0 /\ last.reads["A"] = 1
  /\ Dependents("A") # {}
  /\ \E l \in Callbacks : hooks[l].st = "mounted"

\* what the value getter is to do with the atom state r: raise the read
\* error, else the pending read, else the pending write, else return the
\* value, else raise 'no atom value'
precedence(r) ==
  IF r.e # "none" THEN "read error"
  ELSE IF r.p # 0 THEN "read promise"
  ELSE IF r.w # 0 THEN "write promise"
  ELSE IF r.v # Undef THEN "none"
  ELSE "no atom value"

\* C23: the value getter returns the record's value only when the record
\* holds no read error, no pending read and no pending write; otherwise it
\* raises the read error, else the pending read, else the pending write,
\* and 'no atom value' when the record holds none of the four.
C23_ReadPrecedence ==
  last.op = "value"
    => /\ last.err = precedence(store.rec[last.atom])
       /\ last.val = IF last.err = "none" THEN store.rec[last.atom].v
                     ELSE Undef

\* a record that holds a value, a pending read and a pending write: the
\* getter threw the pending read and returned no value
C23_Witness ==
  /\ last.op = "value" /\ last.err = "read promise" /\ last.val = Undef
  /\ store.rec[last.atom].e = "none"
  /\ store.rec[last.atom].p # 0 /\ store.rec[last.atom].w # 0
  /\ store.rec[last.atom].v # Undef

====
